---- MODULE Spec2Model ----
(***************************************************************************)
(* Session store and chat handlers of the Rag-ChatBot service.             *)
(*                                                                         *)
(*   src/app/utils/chatbot.py      session_history, get_answer_with_history,*)
(*                                 get_chat_history, clear_chat_history     *)
(*   src/app/main.py, app.py       active_sessions, _cleanup_expired_sessions*)
(*   src/archived/app/routes/chat.py (= app.py:114-175)  the three handlers *)
(*                                                                         *)
(* A question is two steps of its handler: everything up to the blocking   *)
(* chain.invoke (sweep, touch, create the entry, read chat_history), and   *)
(* everything after it (append, trim, store, or the raise).  SpecSerial    *)
(* runs one handler at a time, which is what the `async def` handlers      *)
(* without any await give on one event loop; SpecConcurrent lets handlers  *)
(* overlap at the blocking call, which is what get_answer_with_history      *)
(* gives when it is called from several threads: it takes no lock.         *)
(*                                                                         *)
(*   src/app/utils/prepare_vectordb.py   get_vectorstore, extract_pdf_text  *)
(*   src/app/routes/documents.py (= app.py:195-344)  upload, delete, rebuild*)
(*                                                                         *)
(* SpecBuild calls get_vectorstore with every argument of its bounds       *)
(* (SpecBuildFair: and a call that has begun keeps running);               *)
(* SpecDocs runs the document handlers one at a time; SpecSwap runs a      *)
(* rebuild with questions reading the current index while the build is     *)
(* under way; SpecCite applies the citation extraction of                  *)
(* get_answer_with_history to every retrieval result.                      *)
(***************************************************************************)
EXTENDS Integers, Sequences, FiniteSets, TLC

VARIABLES
    session_history,   \* chatbot.py:55   dict session id -> list of messages
    active_sessions,   \* main.py:55      dict session id -> last activity time
    now,               \* time.time()
    req,               \* per handler slot: the locals of a question in flight
    resp,              \* the last HTTP response sent
    count,             \* history variable: per session, the question/answer
                       \* pairs stored so far; the n-th pair stored is named n
    epoch,             \* history variable: per session, count at its last
                       \* clear or expiry
    ever_active,       \* history variable: ids that were ever in active_sessions
    docs,              \* the PDF files in the docs folder
    corrupt,           \* the files PyPDFLoader cannot read
    persisted,         \* the index saved in "Vector_DB - Documents", if any
    collection,        \* per file, how often its chunks are in the collection
                       \* stored in that directory
    vectordb,          \* main.py:51   app_instance.vectordb
    call,              \* the locals of the get_vectorstore call under way
    qindex,            \* per handler slot: the vectordb its question was given
    context,           \* chatbot.py:152  the chunks retrieved for a question
    sources            \* chatbot.py:167  the citation map built from context

svars == <<session_history, active_sessions, now, req, resp, count, epoch,
           ever_active>>

dvars == <<docs, corrupt, persisted, collection, vectordb, call, qindex>>

cvars == <<context, sources>>

vars == <<session_history, active_sessions, now, req, resp, count, epoch,
          ever_active, docs, corrupt, persisted, collection, vectordb, call,
          qindex,
          context, sources>>

Sessions == {"s1", "s2"}
Reqs == {"r1", "r2"}

\* Bounds of the model.
MaxQuestions == 6
MaxConcQuestions == 3
MaxTicks == 2

\* config.py:16 and main.py:56 (app.py:86 has the same value).
SESSION_TIMEOUT == 30 * 60

\* chatbot.py:158-159: "if len(chat_history) > 10: chat_history = chat_history[-10:]"
HISTORY_LIMIT == 10

\* The clock advances by one second or by a whole timeout.
TickSteps == {1, SESSION_TIMEOUT}

----------------------------------------------------------------------------
\* Python dict and list helpers.

EmptyDict == [k \in {} |-> 0]

DictSet(d, k, v) == [x \in (DOMAIN d) \cup {k} |-> IF x = k THEN v ELSE d[x]]

DictDel(d, ks) == [x \in (DOMAIN d) \ ks |-> d[x]]

\* lst[-n:]
LastN(lst, n) ==
    IF Len(lst) <= n THEN lst ELSE SubSeq(lst, Len(lst) - n + 1, Len(lst))

Turns(lst) == {lst[i] : i \in 1..Len(lst)}

HumanMessage(q) == [role |-> "human", content |-> q]
AIMessage(a) == [role |-> "ai", content |-> a]

----------------------------------------------------------------------------
\* chatbot.py

\* chatbot.py:158-159
TrimKeepsOldest(chat_history) ==
    IF Len(chat_history) > HISTORY_LIMIT
    THEN SubSeq(chat_history, 1, HISTORY_LIMIT) ELSE chat_history

TrimDropsOneTurn(chat_history) ==
    IF Len(chat_history) > HISTORY_LIMIT THEN Tail(chat_history) ELSE chat_history

TrimHistory(chat_history) ==
    IF Len(chat_history) > HISTORY_LIMIT
    THEN LastN(chat_history, HISTORY_LIMIT) ELSE chat_history

\* chatbot.py:156-159: the updated list built from the local chat_history
UpdatedAnswerFirst(chat_history, question, response) ==
    TrimHistory(chat_history \o <<AIMessage(response), HumanMessage(question)>>)

UpdatedHistory(chat_history, question, response) ==
    TrimHistory(chat_history \o <<HumanMessage(question), AIMessage(response)>>)

\* chatbot.py:141-143: create the entry when the id is new
InitSession(hist, s) == IF s \notin DOMAIN hist THEN DictSet(hist, s, <<>>) ELSE hist

\* chatbot.py:188: session_history.get(session_id, [])
get_chat_history(hist, s) == IF s \in DOMAIN hist THEN hist[s] ELSE <<>>

\* chatbot.py:199-204
ClearCreatesEntry(hist, s) == DictSet(hist, s, <<>>)

ClearKeepsLastPair(hist, s) ==
    IF s \in DOMAIN hist THEN [hist EXCEPT ![s] = LastN(hist[s], 2)] ELSE hist

clear_chat_history(hist, s) ==
    IF s \in DOMAIN hist THEN [hist EXCEPT ![s] = <<>>] ELSE hist

----------------------------------------------------------------------------
\* main.py:102-115 (app.py:353-366): _cleanup_expired_sessions

ExpiredAtTimeout(active, t) ==
    {s \in DOMAIN active : t - active[s] >= SESSION_TIMEOUT}

\* main.py:109-111: the ids appended to expired_sessions
Expired(active, t) == {s \in DOMAIN active : t - active[s] > SESSION_TIMEOUT}

\* main.py:112: clear_chat_history of each expired id
CleanupHistory(hist, active, t) ==
    [s \in DOMAIN hist |->
        IF s \in Expired(active, t) THEN clear_chat_history(hist, s)[s] ELSE hist[s]]

\* main.py:114-115: del self.active_sessions[session_id]
CleanupActive(active, t) == DictDel(active, Expired(active, t))

\* The history variable epoch follows the sweep: every pair stored so far in
\* a swept session predates its expiry.
SweepEpoch(active, t) ==
    [s \in Sessions |-> IF s \in Expired(active, t) THEN count[s] ELSE epoch[s]]

----------------------------------------------------------------------------
\* prepare_vectordb.py: the values get_vectorstore works on.

Files == {"a.pdf", "b.pdf"}

\* Largest max_retries a direct call is given (a bound of the model).
MaxRetries == 4

\* prepare_vectordb.py:58: max_retries=3, retry_delay=5
DEFAULT_MAX_RETRIES == 3
DEFAULT_RETRY_DELAY == 5

\* Python None, an index under construction inside Chroma.from_documents, and
\* a finished index holding the chunks of the given files.
NoIndex == [kind |-> "none", files |-> {}]
PartialIndex(fs) == [kind |-> "partial", files |-> fs]
IndexOf(fs) == [kind |-> "index", files |-> fs]

\* The collection in the persist directory: the chunks of a file are in it
\* not at all, once, or more than once.
Copies == {"none", "once", "many"}

\* Chroma.from_documents adds the chunks it is given to the collection.
More(c) == IF c = "none" THEN "once" ELSE "many"

AddChunks(coll, fs) == [f \in Files |-> IF f \in fs THEN More(coll[f]) ELSE coll[f]]

\* The collection of a directory that one build from the files of idx made.
CollectionOf(idx) == AddChunks([f \in Files |-> "none"], idx.files)

\* What an embedding attempt can raise: a GoogleGenerativeAIError or another
\* exception, whose text contains "quota" or "429" (quota), "rate" (rate).
Errors == [provider : BOOLEAN, quota : BOOLEAN, rate : BOOLEAN]

\* What get_vectorstore has produced so far: nothing yet, a return value
\* (an index or None), or a raised exception.  An exception is its message:
\* which text it starts with, the attempt count it states (-1 when it states
\* none), and whether it contains "quota"/"429" and "rate".
Pending == [kind |-> "pending", value |-> NoIndex, prefix |-> "", attempts |-> -1,
            quota |-> FALSE, rate |-> FALSE]
Returned(v) == [kind |-> "returned", value |-> v, prefix |-> "", attempts |-> -1,
                quota |-> FALSE, rate |-> FALSE]
Raised(prefix, n, q, r) == [kind |-> "raised", value |-> NoIndex, prefix |-> prefix,
                            attempts |-> n, quota |-> q, rate |-> r]

IdleCall ==
    [pc |-> "idle", caller |-> "", target |-> "", pdfs |-> {}, fss |-> FALSE,
     max_retries |-> 0, retry_delay |-> 0, load |-> "no", extracted |-> {},
     attempt |-> 0, attempts |-> 0, errs |-> <<>>, waits |-> <<>>,
     caught |-> <<>>, building |-> NoIndex, result |-> Pending]

----------------------------------------------------------------------------
\* The handlers (src/archived/app/routes/chat.py; app.py:114-175 is the same code).

IdleReq == [pc |-> "idle", sid |-> "", chat_history |-> <<>>]

RECURSIVE SumOver(_, _)
SumOver(f, S) ==
    IF S = {} THEN 0
    ELSE LET x == CHOOSE y \in S : TRUE IN f[x] + SumOver(f, S \ {x})

\* Questions stored or in flight.
Questions == SumOver(count, Sessions) + Cardinality({r \in Reqs : req[r].pc = "invoking"})

Idle == \A r \in Reqs : req[r].pc = "idle"

Ticks == (now \div SESSION_TIMEOUT) + (now % SESSION_TIMEOUT)

\* The session side of the state after construction.
SessionInit ==
    /\ session_history = EmptyDict
    /\ active_sessions = EmptyDict
    /\ now = 0
    /\ req = [r \in Reqs |-> IdleReq]
    /\ resp = [op |-> "none", sid |-> "", status |-> 0]
    /\ count = [s \in Sessions |-> 0]
    /\ epoch = [s \in Sessions |-> 0]
    /\ ever_active = {}

\* The document side after a start-up that found the files and loaded the
\* index (main.py:41-52), with no build under way.
DocsQuiet ==
    /\ docs = Files
    /\ corrupt = {}
    /\ persisted = IndexOf(Files)
    /\ collection = CollectionOf(persisted)
    /\ vectordb = IndexOf(Files)
    /\ call = IdleCall
    /\ qindex = [r \in Reqs |-> NoIndex]

CiteQuiet ==
    /\ context = <<>>
    /\ sources = EmptyDict

Init == SessionInit /\ DocsQuiet /\ CiteQuiet

\* Time passes (also while a question waits for the LLM).
Tick ==
    /\ Ticks < MaxTicks
    /\ \E d \in TickSteps : now' = now + d
    /\ UNCHANGED <<session_history, active_sessions, req, resp, count, epoch,
                   ever_active>>
    /\ UNCHANGED <<dvars, cvars>>

\* chat.py:22 then chat.py:33: the activity map after the sweep and the touch
QueryActive(active, s, t) == DictSet(CleanupActive(active, t), s, t)

\* chat.py:22 then chatbot.py:141-143: the store after the sweep and the
\* creation of the entry
TouchThenSweepHistory(hist, active, s, t) ==
    InitSession(CleanupHistory(hist, DictSet(active, s, t), t), s)

QueryHistory(hist, active, s, t) == InitSession(CleanupHistory(hist, active, t), s)

\* chat.py:18-38 and chatbot.py:138-152 up to chain.invoke: sweep, touch,
\* create the entry, read chat_history.  A request without session_id gets
\* a uuid4, which is one more id of Sessions.
QueryBegin(r, s, maxq) ==
    /\ req[r].pc = "idle"
    /\ Questions < maxq
    /\ active_sessions' = QueryActive(active_sessions, s, now)
    /\ session_history' = QueryHistory(session_history, active_sessions, s, now)
    /\ req' = [req EXCEPT ![r] =
                 [pc |-> "invoking", sid |-> s,
                  chat_history |-> session_history'[s]]]
    /\ epoch' = SweepEpoch(active_sessions, now)
    /\ ever_active' = ever_active \cup {s}
    /\ UNCHANGED <<now, resp, count>>

\* chat.py:22-26: the sweep, then 400 for an empty question
QueryEmpty(s) ==
    /\ active_sessions' = CleanupActive(active_sessions, now)
    /\ session_history' = CleanupHistory(session_history, active_sessions, now)
    /\ epoch' = SweepEpoch(active_sessions, now)
    /\ resp' = [op |-> "query", sid |-> s, status |-> 400]
    /\ UNCHANGED <<now, req, count, ever_active>>

\* chatbot.py:152-172 when get_response returns: append, trim, store.
\* The question and its answer are the next pair of the session.
QueryOk(r) ==
    /\ req[r].pc = "invoking"
    /\ LET s == req[r].sid
           q == count[s] + 1
       IN /\ session_history' =
                DictSet(session_history, s, UpdatedHistory(req[r].chat_history, q, q))
          /\ count' = [count EXCEPT ![s] = q]
          /\ resp' = [op |-> "query", sid |-> s, status |-> 200]
    /\ req' = [req EXCEPT ![r] = IdleReq]
    /\ UNCHANGED <<active_sessions, now, epoch, ever_active>>

\* chatbot.py:120-122 and 174-176, chat.py:45-47: get_response raises, the
\* exception goes up unchanged and the handler answers 500.
QueryFailCommitsQuestion(r) ==
    /\ req[r].pc = "invoking"
    /\ session_history' =
          DictSet(session_history, req[r].sid,
                  req[r].chat_history \o <<HumanMessage(count[req[r].sid] + 1)>>)
    /\ resp' = [op |-> "query", sid |-> req[r].sid, status |-> 500]
    /\ req' = [req EXCEPT ![r] = IdleReq]
    /\ UNCHANGED <<active_sessions, now, count, epoch, ever_active>>

QueryFail(r) ==
    /\ req[r].pc = "invoking"
    /\ resp' = [op |-> "query", sid |-> req[r].sid, status |-> 500]
    /\ req' = [req EXCEPT ![r] = IdleReq]
    /\ UNCHANGED <<session_history, active_sessions, now, count, epoch,
                   ever_active>>

\* chat.py:54-63: 200 with [] for a tracked id without history, 404 for an
\* untracked id without history, 200 with the history otherwise
HistoryStatusAlwaysOk(history, active, s) == 200

HistoryStatus(history, active, s) ==
    IF history = <<>> /\ s \in DOMAIN active THEN 200
    ELSE IF history = <<>> THEN 404
    ELSE 200

\* chatbot.py:188-190: session_history.get(session_id, []) reads the dict and
\* inserts nothing (setdefault would).
LookupCreatesEntry(hist, s) == InitSession(hist, s)

StoreAfterLookup(hist, s) == hist

\* chat.py:49-77: GET /history/{session_id}
GetHistory(s) ==
    /\ active_sessions' = CleanupActive(active_sessions, now)
    /\ session_history' =
          StoreAfterLookup(CleanupHistory(session_history, active_sessions, now), s)
    /\ epoch' = SweepEpoch(active_sessions, now)
    /\ resp' = [op |-> "history", sid |-> s,
                status |-> HistoryStatus(get_chat_history(session_history', s),
                                         active_sessions', s)]
    /\ UNCHANGED <<now, req, count, ever_active>>

\* chat.py:81-82
ClearFound(active, s) == s \in DOMAIN active

\* chat.py:79-85: DELETE /history/{session_id}
ClearHistory(s) ==
    /\ IF ClearFound(active_sessions, s)
       THEN /\ session_history' = clear_chat_history(session_history, s)
            /\ epoch' = [epoch EXCEPT ![s] = count[s]]
            /\ resp' = [op |-> "clear", sid |-> s, status |-> 200]
       ELSE /\ resp' = [op |-> "clear", sid |-> s, status |-> 404]
            /\ UNCHANGED <<session_history, epoch>>
    /\ UNCHANGED <<active_sessions, now, req, count, ever_active>>

\* One handler at a time: the event loop runs each `async def` handler to its
\* end, the blocking LLM call included.
FirstReq == CHOOSE r \in Reqs : TRUE

SerialBegin ==
    /\ Idle
    /\ \E s \in Sessions : QueryBegin(FirstReq, s, MaxQuestions)
    /\ UNCHANGED <<dvars, cvars>>
SerialEmpty ==
    /\ Idle
    /\ \E s \in Sessions : QueryEmpty(s)
    /\ UNCHANGED <<dvars, cvars>>
SerialGetHistory ==
    /\ Idle
    /\ \E s \in Sessions : GetHistory(s)
    /\ UNCHANGED <<dvars, cvars>>
SerialClearHistory ==
    /\ Idle
    /\ \E s \in Sessions : ClearHistory(s)
    /\ UNCHANGED <<dvars, cvars>>
AnyQueryOk ==
    /\ \E r \in Reqs : QueryOk(r)
    /\ UNCHANGED <<dvars, cvars>>
AnyQueryFail ==
    /\ \E r \in Reqs : QueryFail(r)
    /\ UNCHANGED <<dvars, cvars>>

NextSerial ==
    \/ Tick
    \/ SerialBegin
    \/ SerialEmpty
    \/ SerialGetHistory
    \/ SerialClearHistory
    \/ AnyQueryOk
    \/ AnyQueryFail

SpecSerial == Init /\ [][NextSerial]_vars

\* Handlers overlap at the blocking call.
ConcBegin ==
    /\ \E r \in Reqs, s \in Sessions : QueryBegin(r, s, MaxConcQuestions)
    /\ UNCHANGED <<dvars, cvars>>
ConcEmpty ==
    /\ \E s \in Sessions : QueryEmpty(s)
    /\ UNCHANGED <<dvars, cvars>>
ConcGetHistory ==
    /\ \E s \in Sessions : GetHistory(s)
    /\ UNCHANGED <<dvars, cvars>>
ConcClearHistory ==
    /\ \E s \in Sessions : ClearHistory(s)
    /\ UNCHANGED <<dvars, cvars>>

NextConcurrent ==
    \/ Tick
    \/ ConcBegin
    \/ ConcEmpty
    \/ ConcGetHistory
    \/ ConcClearHistory
    \/ AnyQueryOk
    \/ AnyQueryFail

SpecConcurrent == Init /\ [][NextConcurrent]_vars

Spec == SpecSerial

----------------------------------------------------------------------------
\* prepare_vectordb.py: get_vectorstore, one step per place where it can be
\* observed or can fail.

RECURSIVE Pow2(_)
Pow2(n) == IF n <= 0 THEN 1 ELSE 2 * Pow2(n - 1)

\* A variant that tests for "rate" before "quota" and "429".
ClassRateFirst(e) ==
    IF e.provider
    THEN IF e.rate THEN "rate" ELSE IF e.quota THEN "quota" ELSE "other_api"
    ELSE "general"

\* prepare_vectordb.py:109-138: which handler an embedding failure reaches
Class(e) ==
    IF e.provider
    THEN IF e.quota THEN "quota" ELSE IF e.rate THEN "rate" ELSE "other_api"
    ELSE "general"

\* Variants of the schedule that the checks must tell from the real one.
WaitTimeQuotaLinear(class, attempt, retry_delay) ==
    IF class = "general" THEN retry_delay ELSE retry_delay * (attempt + 1)

WaitTimeRateExponential(class, attempt, retry_delay) ==
    IF class = "general" THEN retry_delay ELSE retry_delay * Pow2(attempt)

\* prepare_vectordb.py:115, 125, 141: the sleep before the next attempt
WaitTime(class, attempt, retry_delay) ==
    CASE class = "quota" -> retry_delay * Pow2(attempt)
      [] class = "rate" -> retry_delay * (attempt + 1)
      [] OTHER -> retry_delay

\* A variant that goes round again after the last attempt too.
RetriesEveryTime(class, attempt, max_retries) == class # "other_api"

\* prepare_vectordb.py:114, 124, 140 (a provider error of no known kind is
\* re-raised at once, lines 133-136)
Retries(class, attempt, max_retries) ==
    class # "other_api" /\ attempt < max_retries - 1

\* prepare_vectordb.py:121, 131, 136, 147: the exception raised on giving up
GiveUp(e, max_retries) ==
    CASE Class(e) = "quota" ->
            Raised("API quota exceeded after", max_retries, TRUE, FALSE)
      [] Class(e) = "rate" ->
            Raised("Rate limit exceeded after", max_retries, FALSE, TRUE)
      [] Class(e) = "other_api" ->
            Raised("Google API error:", -1, FALSE, FALSE)
      [] OTHER ->
            Raised("Failed to create embeddings after", max_retries, e.quota, e.rate)

\* documents.py:167-184 (and 75-92): what the caller makes of the message
CallerClass(result) ==
    IF result.quota THEN "quota" ELSE IF result.rate THEN "rate" ELSE "generic"

\* extract_pdf_text lets the loader's exception through (lines 34-36).
IngestionError == Raised("ingestion", -1, FALSE, FALSE)

\* prepare_vectordb.py:78 and :90, the two tests on the persisted directory
LoadsExisting(fss, dir) == fss /\ dir.kind # "none"
BuildsNew(fss, dir) == ~fss \/ dir.kind = "none"

\* extract_pdf_text (lines 26-39): one unreadable file fails the extraction
ExtractSkipsBadFiles(pdfs, bad) == FALSE

ExtractFails(pdfs, bad) == pdfs \cap bad # {}

\* What a step of get_vectorstore leaves alone.
GVFrame == UNCHANGED <<svars, cvars, docs, corrupt, vectordb, qindex>>

\* The call (lines 58-78).
GVStart(caller, target, pdfs, fss, max_retries, retry_delay) ==
    /\ call.pc = "idle"
    /\ call' = [IdleCall EXCEPT
                  !.pc = IF LoadsExisting(fss, persisted) THEN "load" ELSE "check",
                  !.caller = caller, !.target = target, !.pdfs = pdfs, !.fss = fss,
                  !.max_retries = max_retries, !.retry_delay = retry_delay]

\* Lines 82-84: the persisted index opens and is returned.
GVLoadOk ==
    /\ call.pc = "load"
    /\ call' = [call EXCEPT !.pc = "done", !.load = "ok",
                            !.result = Returned(persisted)]
    /\ UNCHANGED <<persisted, collection>>
    /\ GVFrame

\* Lines 85-88: opening it raises; the exception is logged and dropped.
GVLoadFail ==
    /\ call.pc = "load"
    /\ call' = [call EXCEPT !.pc = "check", !.load = "failed"]
    /\ UNCHANGED <<persisted, collection>>
    /\ GVFrame

\* Line 90, and lines 149-150 when its test is false.
GVCheck ==
    /\ call.pc = "check"
    /\ call' = IF BuildsNew(call.fss, persisted)
               THEN [call EXCEPT !.pc = "extract"]
               ELSE [call EXCEPT !.pc = "done", !.result = Returned(NoIndex)]
    /\ UNCHANGED <<persisted, collection>>
    /\ GVFrame

\* Lines 92-93: extraction and chunking of every file, or the loader's error.
GVExtract ==
    /\ call.pc = "extract"
    /\ call' = IF ExtractFails(call.pdfs, corrupt)
               THEN [call EXCEPT !.pc = "done", !.result = IngestionError]
               ELSE [call EXCEPT !.pc = "embed", !.extracted = call.pdfs]
    /\ UNCHANGED <<persisted, collection>>
    /\ GVFrame

\* Lines 97-105: an attempt begins; Chroma.from_documents works on an index
\* that is not yet complete and that only this call can reach.
GVAttemptStartPublishes ==
    /\ call.pc = "embed"
    /\ call.attempt < call.max_retries
    /\ call' = [call EXCEPT !.pc = "embedding", !.attempts = @ + 1,
                            !.caught = <<>>,
                            !.building = PartialIndex(call.extracted)]
    /\ vectordb' = PartialIndex(call.extracted)
    /\ UNCHANGED <<svars, cvars, docs, corrupt, persisted, collection, qindex>>

GVAttemptStart ==
    /\ call.pc = "embed"
    /\ call.attempt < call.max_retries
    /\ call' = [call EXCEPT !.pc = "embedding", !.attempts = @ + 1,
                            !.caught = <<>>,
                            !.building = PartialIndex(call.extracted)]
    /\ UNCHANGED <<persisted, collection>>
    /\ GVFrame

\* Lines 101-107: the attempt succeeds, the index is complete and persisted.
\* Nothing in the program empties or removes the directory, and from_documents
\* is given the same persist_directory each time: the chunks are added to the
\* collection that is there.
GVAttemptOk ==
    /\ call.pc = "embedding"
    /\ call' = [call EXCEPT !.pc = "done", !.building = NoIndex,
                            !.result = Returned(IndexOf(call.extracted))]
    /\ persisted' = IndexOf(call.extracted)
    /\ collection' = AddChunks(collection, call.extracted)
    /\ GVFrame

\* Lines 109-147: the attempt raises e; sleep and go round, or give up.  The
\* exception is bound to e until its except clause is left.
GVAttemptFail ==
    /\ call.pc = "embedding"
    /\ \E e \in Errors :
         call' = IF Retries(Class(e), call.attempt, call.max_retries)
                 THEN [call EXCEPT
                         !.pc = "embed", !.building = NoIndex,
                         !.errs = Append(@, Class(e)), !.caught = <<e>>,
                         !.waits = Append(@, WaitTime(Class(e), call.attempt,
                                                      call.retry_delay)),
                         !.attempt = @ + 1]
                 ELSE [call EXCEPT
                         !.pc = "done", !.building = NoIndex,
                         !.errs = Append(@, Class(e)), !.caught = <<e>>,
                         !.result = GiveUp(e, call.max_retries)]
    /\ UNCHANGED <<persisted, collection>>
    /\ GVFrame

\* Lines 97 and 149-150: range(max_retries) is used up without a return or a
\* raise, which only an empty range does.
GVLoopExit ==
    /\ call.pc = "embed"
    /\ call.attempt >= call.max_retries
    /\ call' = [call EXCEPT !.pc = "done", !.result = Returned(NoIndex)]
    /\ UNCHANGED <<persisted, collection>>
    /\ GVFrame

----------------------------------------------------------------------------
\* get_vectorstore called by itself (as prepare_vectordb.py:165 does), with
\* every argument the signature allows.

RetryDelays == {1, DEFAULT_RETRY_DELAY}

BuildInit ==
    /\ SessionInit
    /\ CiteQuiet
    /\ docs = Files
    /\ corrupt \in SUBSET Files
    /\ persisted \in {NoIndex, IndexOf(Files)}
    /\ collection = CollectionOf(persisted)
    /\ vectordb = NoIndex
    /\ call = IdleCall
    /\ qindex = [r \in Reqs |-> NoIndex]

DirectCall ==
    /\ \E pdfs \in SUBSET Files, fss \in BOOLEAN, max_retries \in 0..MaxRetries,
          retry_delay \in RetryDelays :
         GVStart("direct", "", pdfs, fss, max_retries, retry_delay)
    /\ UNCHANGED <<persisted, collection>>
    /\ GVFrame

DirectReturn ==
    /\ call.pc = "done"
    /\ call.caller = "direct"
    /\ call' = IdleCall
    /\ UNCHANGED <<persisted, collection>>
    /\ GVFrame

NextBuild ==
    \/ DirectCall
    \/ GVLoadOk
    \/ GVLoadFail
    \/ GVCheck
    \/ GVExtract
    \/ GVAttemptStart
    \/ GVAttemptOk
    \/ GVAttemptFail
    \/ GVLoopExit
    \/ DirectReturn

SpecBuild == BuildInit /\ [][NextBuild]_vars

\* A call that has begun keeps running: a load, an extraction, an attempt and
\* a sleep each come to their end.
BuildSteps ==
    \/ GVLoadOk
    \/ GVLoadFail
    \/ GVCheck
    \/ GVExtract
    \/ GVAttemptStart
    \/ GVAttemptOk
    \/ GVAttemptFail
    \/ GVLoopExit

SpecBuildFair == SpecBuild /\ WF_vars(BuildSteps)

----------------------------------------------------------------------------
\* What the claims speak of.

RECURSIVE PairSeq(_, _)
\* The pairs lo..hi of a session, in the order they were stored.
PairSeq(lo, hi) ==
    IF lo > hi THEN <<>>
    ELSE <<HumanMessage(lo), AIMessage(lo)>> \o PairSeq(lo + 1, hi)

\* The turns appended to s since its last clear or expiry, chronologically.
Chron(s) == PairSeq(epoch[s] + 1, count[s])

Stored(s) == get_chat_history(session_history, s)

Min(a, b) == IF a <= b THEN a ELSE b

\* A step that ends the question in flight of slot r with the given status.
Ends(r, status) ==
    /\ req[r].pc = "invoking"
    /\ req'[r].pc = "idle"
    /\ resp' = [op |-> "query", sid |-> req[r].sid, status |-> status]

\* C1: after any sequence of successful questions, clears and sweeps, the
\* stored history of a session has at most 10 turns and is the last
\* min(10, n) of the n turns appended since its last clear or expiry, in
\* their order.
C1_HistoryIsLastTen ==
    \A s \in Sessions :
        LET h == Stored(s)
            c == Chron(s)
        IN /\ Len(h) <= 10
           /\ Len(h) = Min(10, Len(c))
           /\ \A i \in 1..Len(h) : h[i] = c[Len(c) - Len(h) + i]

C1_Witness ==
    \E s \in Sessions :
        /\ Len(Chron(s)) = 12
        /\ Len(Stored(s)) = 10
        /\ Stored(s)[1] = HumanMessage(epoch[s] + 2)

\* C2: when retrieval or the LLM call raises, the handler answers with the
\* error at once (the slot is idle again: no retry, no answer) and the
\* stored history of the session is the one the call read when it began.
C2_FailureLeavesHistory ==
    [][\A r \in Reqs :
          (req[r].pc = "invoking" /\ req'[r].pc = "idle" /\ resp'.status # 200)
          => /\ resp' = [op |-> "query", sid |-> req[r].sid, status |-> 500]
             /\ get_chat_history(session_history', req[r].sid) = req[r].chat_history
      ]_vars

C2_Witness ==
    /\ resp.op = "query"
    /\ resp.status = 500
    /\ Idle
    /\ Len(Stored(resp.sid)) >= 2

\* C3: two questions of one session that overlap lose no update: in a
\* session that was never cleared or expired, the stored history holds
\* every one of the last five pairs stored.
C3_NoLostUpdate ==
    \A s \in Sessions :
        epoch[s] = 0 =>
            \A n \in 1..count[s] :
                n > count[s] - 5 =>
                    {HumanMessage(n), AIMessage(n)} \subseteq Turns(Stored(s))

\* C4: a question in flight across a clear or an expiry does not bring the
\* discarded turns back: no stored turn predates the session's last clear
\* or expiry.
C4_NoResurrection ==
    \A s \in Sessions :
        \A i \in 1..Len(Stored(s)) : Stored(s)[i].content > epoch[s]

\* C5: a sweep at time now empties the history of, and drops from the
\* activity map, exactly the tracked sessions with now - last_activity >
\* timeout; every other session keeps its history and its timestamp.  The
\* history and empty-question handlers are a sweep and nothing more; the
\* question handler sweeps and then touches its own session only.
SweptExactly(skip) ==
    LET old == {x \in DOMAIN active_sessions :
                   now - active_sessions[x] > SESSION_TIMEOUT}
    IN \A x \in Sessions \ skip :
          IF x \in old
          THEN /\ x \notin DOMAIN active_sessions'
               /\ get_chat_history(session_history', x) = <<>>
          ELSE /\ (x \in DOMAIN active_sessions') = (x \in DOMAIN active_sessions)
               /\ x \in DOMAIN active_sessions =>
                      active_sessions'[x] = active_sessions[x]
               /\ (x \in DOMAIN session_history') = (x \in DOMAIN session_history)
               /\ x \in DOMAIN session_history =>
                      session_history'[x] = session_history[x]

C5_SweepExact ==
    [][/\ (\E s \in Sessions : GetHistory(s) \/ QueryEmpty(s)) => SweptExactly({})
       /\ \A r \in Reqs, s \in Sessions :
             QueryBegin(r, s, MaxQuestions) => SweptExactly({s})
      ]_vars

C5_Witness ==
    /\ resp.op = "history"
    /\ \E s1, s2 \in Sessions :
          /\ s1 \in ever_active
          /\ s1 \notin DOMAIN active_sessions
          /\ count[s1] > 0
          /\ epoch[s1] = count[s1]
          /\ Stored(s1) = <<>>
          /\ s2 \in DOMAIN active_sessions
          /\ now - active_sessions[s2] = SESSION_TIMEOUT
          /\ Stored(s2) # <<>>

\* C6: after a clear or an expiry, the next successful question of the
\* session is answered with an empty prior history and leaves exactly its
\* own two turns; a question that arrives after the timeout has passed
\* reads an empty history, for the handler sweeps before it touches.
C6_FreshAfterDiscard ==
    [][\A r \in Reqs :
          /\ (Ends(r, 200) /\ epoch[req[r].sid] = count[req[r].sid])
             => /\ req[r].chat_history = <<>>
                /\ Len(get_chat_history(session_history', req[r].sid)) = 2
          /\ \A s \in Sessions :
                (/\ req[r].pc = "idle"
                 /\ req'[r].pc = "invoking"
                 /\ req'[r].sid = s
                 /\ s \in DOMAIN active_sessions
                 /\ now - active_sessions[s] > SESSION_TIMEOUT)
                => req'[r].chat_history = <<>>
      ]_vars

C6_Witness ==
    /\ resp.op = "query"
    /\ resp.status = 200
    /\ epoch[resp.sid] > 0
    /\ count[resp.sid] = epoch[resp.sid] + 1
    /\ Len(Stored(resp.sid)) = 2

\* C7: every request that names a session and is served (a question, a
\* history read, a clear) records the current time as the session's last
\* activity.
C7_EveryRequestTouches ==
    [][\A s \in Sessions :
          (\/ \E r \in Reqs : QueryBegin(r, s, MaxQuestions)
           \/ (GetHistory(s) /\ resp'.status = 200)
           \/ (ClearHistory(s) /\ resp'.status = 200))
          => (s \in DOMAIN active_sessions' /\ active_sessions'[s] = now)
      ]_vars

\* C8: for every session id and every stored content, get_chat_history
\* right after clear_chat_history is empty; so is the history of the session
\* the clear handler has just answered for.
C8_ClearThenGetEmpty ==
    /\ \A s \in Sessions :
          get_chat_history(clear_chat_history(session_history, s), s) = <<>>
    /\ (resp.op = "clear" /\ resp.status = 200) => Stored(resp.sid) = <<>>

\* No time has passed, so the pairs of the cleared session were discarded by
\* a clear and not by a sweep; another session holds a full history.
C8_Witness ==
    /\ resp.op = "clear"
    /\ resp.status = 200
    /\ now = 0
    /\ count[resp.sid] > 0
    /\ epoch[resp.sid] = count[resp.sid]
    /\ Stored(resp.sid) = <<>>
    /\ \E s \in Sessions : Len(Stored(s)) = HISTORY_LIMIT

\* C9: clear_chat_history twice is clear_chat_history once, and on an id
\* that is not in the store it changes nothing and creates no entry.
C9_ClearIdempotent ==
    \A s \in Sessions :
        LET once == clear_chat_history(session_history, s)
        IN /\ clear_chat_history(once, s) = once
           /\ s \notin DOMAIN session_history =>
                 (once = session_history /\ s \notin DOMAIN once)

C9_Witness ==
    /\ \E s \in Sessions : s \in DOMAIN session_history /\ Stored(s) # <<>>
    /\ \E s \in Sessions : s \notin DOMAIN session_history
    /\ resp.op = "clear"
    /\ resp.status = 404

\* C10: a history read or a clear for an id that was never tracked is
\* answered 404 and creates no history entry and no activity entry; it is
\* not fatal: the clear leaves both maps and the question in flight as they
\* were, and the read does its sweep and nothing else.
C10_UnknownIsNotFound ==
    [][\A s \in Sessions :
          /\ ((GetHistory(s) \/ ClearHistory(s)) /\ s \notin ever_active)
             => /\ resp' = [op |-> resp'.op, sid |-> s, status |-> 404]
                /\ s \notin DOMAIN session_history'
                /\ s \notin DOMAIN active_sessions'
                /\ req' = req
          /\ (ClearHistory(s) /\ s \notin ever_active)
             => (session_history' = session_history
                 /\ active_sessions' = active_sessions)
          /\ (GetHistory(s) /\ s \notin ever_active) => SweptExactly({})
      ]_vars

C10_Witness ==
    /\ resp.op = "history"
    /\ resp.status = 404
    /\ resp.sid \notin ever_active
    /\ resp.sid \notin DOMAIN session_history
    /\ resp.sid \notin DOMAIN active_sessions
    /\ \E s \in Sessions : Stored(s) # <<>>

----------------------------------------------------------------------------
\* documents.py: the upload, delete and rebuild handlers around get_vectorstore.
\* One document handler runs at a time (SpecDocs); questions are asked while
\* a rebuild is under way in SpecSwap.

\* Questions asked in a run of SpecSwap (a bound of the model).
MaxDocQuestions == 2

\* documents.py:64, 119, 157: the assignment runs only if the call returns.
AssignedEvenOnError(current, result) == result.value

Assigned(current, result) ==
    IF result.kind = "returned" THEN result.value ELSE current

\* documents.py:159-184
RebuildStatus(result) ==
    IF result.kind = "returned" THEN 200
    ELSE IF CallerClass(result) \in {"quota", "rate"} THEN 429 ELSE 500

\* documents.py:123-125
DeleteStatus(result) == IF result.kind = "returned" THEN 200 ELSE 500

DocResp(op, status) == [op |-> op, sid |-> "", status |-> status]

\* What a document handler leaves alone apart from its response.
DocFrame ==
    UNCHANGED <<session_history, active_sessions, now, req, count, epoch,
                ever_active, qindex, cvars>>

\* The state after a start-up that built the index of the files it found.
DocsInit ==
    /\ SessionInit
    /\ CiteQuiet
    /\ docs \in {{"a.pdf"}, Files}
    /\ corrupt = {}
    /\ persisted = IndexOf(docs)
    /\ collection = CollectionOf(persisted)
    /\ vectordb = IndexOf(docs)
    /\ call = IdleCall
    /\ qindex = [r \in Reqs |-> NoIndex]

\* documents.py:39-64: the file is saved (readable or not), the folder is
\* listed and get_vectorstore is called with its defaults.
UploadBegin ==
    /\ \E f \in Files, bad \in BOOLEAN :
         /\ docs' = docs \cup {f}
         /\ corrupt' = IF bad THEN corrupt \cup {f} ELSE corrupt \ {f}
         /\ GVStart("upload", f, docs', TRUE, DEFAULT_MAX_RETRIES, DEFAULT_RETRY_DELAY)
    /\ UNCHANGED <<persisted, collection, vectordb, resp>>
    /\ DocFrame

\* documents.py:64-92: the assignment, or a message about the failed indexing;
\* both answer 200.
UploadFinish ==
    /\ call.pc = "done"
    /\ call.caller = "upload"
    /\ vectordb' = Assigned(vectordb, call.result)
    /\ resp' = DocResp("upload", 200)
    /\ call' = IdleCall
    /\ UNCHANGED <<docs, corrupt, persisted, collection>>
    /\ DocFrame

\* documents.py:107-111
DeleteMissing ==
    /\ call.pc = "idle"
    /\ \E f \in Files \ docs : resp' = DocResp("delete", 404)
    /\ UNCHANGED dvars
    /\ DocFrame

\* documents.py:113-121: unlink, list the folder, then get_vectorstore with
\* its defaults, or None when no file is left.
DeleteBegin ==
    /\ call.pc = "idle"
    /\ \E f \in docs :
         /\ docs' = docs \ {f}
         /\ corrupt' = corrupt \ {f}
         /\ IF docs' # {}
            THEN /\ GVStart("delete", f, docs', TRUE, DEFAULT_MAX_RETRIES,
                            DEFAULT_RETRY_DELAY)
                 /\ UNCHANGED <<vectordb, resp>>
            ELSE /\ vectordb' = NoIndex
                 /\ resp' = DocResp("delete", 200)
                 /\ UNCHANGED call
    /\ UNCHANGED <<persisted, collection>>
    /\ DocFrame

\* documents.py:119-125
DeleteFinish ==
    /\ call.pc = "done"
    /\ call.caller = "delete"
    /\ vectordb' = Assigned(vectordb, call.result)
    /\ resp' = DocResp("delete", DeleteStatus(call.result))
    /\ call' = IdleCall
    /\ UNCHANGED <<docs, corrupt, persisted, collection>>
    /\ DocFrame

\* documents.py:146-152
RebuildEmpty ==
    /\ call.pc = "idle"
    /\ docs = {}
    /\ resp' = DocResp("rebuild", 400)
    /\ UNCHANGED dvars
    /\ DocFrame

\* documents.py:146-157
RebuildBegin ==
    /\ docs # {}
    /\ GVStart("rebuild", "", docs, FALSE, DEFAULT_MAX_RETRIES, DEFAULT_RETRY_DELAY)
    /\ UNCHANGED <<docs, corrupt, persisted, collection, vectordb, resp>>
    /\ DocFrame

\* documents.py:157-184
RebuildFinish ==
    /\ call.pc = "done"
    /\ call.caller = "rebuild"
    /\ vectordb' = Assigned(vectordb, call.result)
    /\ resp' = DocResp("rebuild", RebuildStatus(call.result))
    /\ call' = IdleCall
    /\ UNCHANGED <<docs, corrupt, persisted, collection>>
    /\ DocFrame

\* chat.py:38-42: the question is handed the index that app_instance.vectordb
\* designates when get_answer_with_history is called.
DocsAsk ==
    /\ \E r \in Reqs, s \in Sessions :
         /\ QueryBegin(r, s, MaxDocQuestions)
         /\ qindex' = [qindex EXCEPT ![r] = vectordb]
    /\ UNCHANGED <<docs, corrupt, persisted, collection, vectordb, call, cvars>>

\* chatbot.py:106-118: retrieval and answer need an index to ask.
DocsAnswer ==
    /\ \E r \in Reqs : qindex[r].kind # "none" /\ QueryOk(r)
    /\ UNCHANGED <<dvars, cvars>>

\* chatbot.py:120-122: with None for an index, or when the chain raises.
DocsAnswerFail ==
    /\ \E r \in Reqs : QueryFail(r)
    /\ UNCHANGED <<dvars, cvars>>

NextDocs ==
    \/ UploadBegin
    \/ UploadFinish
    \/ DeleteMissing
    \/ DeleteBegin
    \/ DeleteFinish
    \/ RebuildEmpty
    \/ RebuildBegin
    \/ RebuildFinish
    \/ GVLoadOk
    \/ GVLoadFail
    \/ GVCheck
    \/ GVExtract
    \/ GVAttemptStart
    \/ GVAttemptOk
    \/ GVAttemptFail

SpecDocs == DocsInit /\ [][NextDocs]_vars

\* A rebuild with questions in flight.  The folder holds a file that the
\* index loaded at start-up does not (main.py:51 loads whatever is persisted).
SwapInit ==
    /\ SessionInit
    /\ CiteQuiet
    /\ docs = Files
    /\ corrupt = {}
    /\ persisted = IndexOf({"a.pdf"})
    /\ collection = CollectionOf(persisted)
    /\ vectordb = IndexOf({"a.pdf"})
    /\ call = IdleCall
    /\ qindex = [r \in Reqs |-> NoIndex]

NextSwap ==
    \/ RebuildBegin
    \/ RebuildFinish
    \/ GVCheck
    \/ GVExtract
    \/ GVAttemptStart
    \/ GVAttemptOk
    \/ GVAttemptFail
    \/ DocsAsk
    \/ DocsAnswer
    \/ DocsAnswerFail

SpecSwap == SwapInit /\ [][NextSwap]_vars

----------------------------------------------------------------------------
\* chatbot.py:166-172: the citations of an answer.

\* Longest retrieval result (a bound of the model).
MaxChunks == 3

Pages == {1, 2, 3}

\* A retrieved chunk: doc.metadata['source'] and doc.metadata['page'].
Chunks == [source : Files, page : Pages]

RECURSIVE SeqsUpTo(_, _)
SeqsUpTo(S, n) ==
    IF n = 0 THEN {<<>>}
    ELSE LET shorter == SeqsUpTo(S, n - 1)
         IN shorter \cup {Append(c, x) : c \in shorter, x \in S}

\* defaultdict(list): a missing key reads as the empty list
ListAt(d, k) == IF k \in DOMAIN d THEN d[k] ELSE <<>>

\* Variants of the loop body that drop a repeated page or keep pages sorted.
RECURSIVE AddSourcesOnce(_, _)
AddSourcesOnce(acc, ctx) ==
    IF ctx = <<>> THEN acc
    ELSE LET doc == Head(ctx)
             old == ListAt(acc, doc.source)
         IN AddSourcesOnce(
               DictSet(acc, doc.source,
                       IF \E i \in 1..Len(old) : old[i] = doc.page
                       THEN old ELSE Append(old, doc.page)),
               Tail(ctx))

ExtractSourcesDeduplicated(ctx) == AddSourcesOnce(EmptyDict, ctx)

\* chatbot.py:168-169: for doc in context: sources[source].append(page)
RECURSIVE AddSources(_, _)
AddSources(acc, ctx) ==
    IF ctx = <<>> THEN acc
    ELSE LET doc == Head(ctx)
         IN AddSources(
               DictSet(acc, doc.source, Append(ListAt(acc, doc.source), doc.page)),
               Tail(ctx))

\* chatbot.py:167-172
ExtractSources(ctx) == AddSources(EmptyDict, ctx)

\* Every retrieval result up to MaxChunks chunks, before its citations are made.
CiteInit ==
    /\ SessionInit
    /\ DocsQuiet
    /\ context \in SeqsUpTo(Chunks, MaxChunks)
    /\ sources = EmptyDict

Cite ==
    /\ sources' = ExtractSources(context)
    /\ UNCHANGED <<svars, dvars, context>>

NextCite == Cite

SpecCite == CiteInit /\ [][NextCite]_vars

----------------------------------------------------------------------------
\* Claims about get_vectorstore, checked under SpecBuild.

Done == call.pc = "done"

\* Every failed attempt of the call so far was of this class.
AllErrs(class) ==
    /\ call.errs # <<>>
    /\ \A i \in 1..Len(call.errs) : call.errs[i] = class

\* The call has come to the building branch (line 91 or later).
Building == call.pc \in {"extract", "embed", "embedding"} \/ (Done /\ call.load = "no")

\* C11: when from_session_state is true, a persisted index exists and loading
\* it raises, the call goes on to rebuild from the given files: it ends with
\* the rebuilt index or with a build error, never with no index.
C11_LoadFailureRebuilds ==
    (Done /\ call.load = "failed") =>
        \/ call.result.kind = "raised"
        \/ call.result.kind = "returned" /\ call.result.value.kind = "index"

\* C12: when every failed attempt is a provider error with "quota" or "429",
\* the wait after failed attempt i (0-based) is retry_delay * 2^i; a success
\* at attempt k <= max_retries after k-1 failures returns the built index;
\* if all attempts fail the call raises after exactly max_retries attempts
\* and max_retries - 1 waits.
C12_QuotaBackoff ==
    AllErrs("quota") =>
        /\ \A i \in 1..Len(call.waits) :
               call.waits[i] = call.retry_delay * (2 ^ (i - 1))
        /\ call.attempts <= call.max_retries
        /\ call.result.kind = "returned" =>
               /\ call.result.value = IndexOf(call.pdfs)
               /\ call.attempts = Len(call.errs) + 1
               /\ Len(call.waits) = Len(call.errs)
        /\ call.result.kind = "raised" =>
               /\ call.result.prefix = "API quota exceeded after"
               /\ call.attempts = call.max_retries
               /\ Len(call.errs) = call.max_retries
               /\ Len(call.waits) = call.max_retries - 1

\* The spec's example, and one step further where the schedules part.
C12_Witness ==
    /\ Done
    /\ AllErrs("quota")
    /\ call.retry_delay = 5
    /\ \/ call.max_retries = 3 /\ call.result.kind = "raised" /\ call.waits = <<5, 10>>
       \/ call.max_retries = 4 /\ call.result.kind = "returned"
              /\ call.waits = <<5, 10, 20>>

\* C13: when every failed attempt is a provider error with "rate" (and not
\* "quota" or "429"), the wait after failed attempt i (0-based) is
\* retry_delay * (i + 1), and after max_retries failures the call raises with
\* no further wait.
C13_RateBackoff ==
    AllErrs("rate") =>
        /\ \A i \in 1..Len(call.waits) : call.waits[i] = call.retry_delay * i
        /\ call.attempts <= call.max_retries
        /\ call.result.kind = "raised" =>
               /\ call.result.prefix = "Rate limit exceeded after"
               /\ call.attempts = call.max_retries
               /\ Len(call.errs) = call.max_retries
               /\ Len(call.waits) = call.max_retries - 1

C13_Witness ==
    /\ Done
    /\ AllErrs("rate")
    /\ call.retry_delay = 5
    /\ call.max_retries = 4
    /\ call.result.kind = "raised"
    /\ call.waits = <<5, 10, 15>>

\* C14: a failure that is neither quota nor rate (a provider error of another
\* kind included) is retried after a fixed wait of retry_delay, until
\* max_retries attempts have been made.
C14_OtherFailuresRetried ==
    (\A i \in 1..Len(call.errs) : call.errs[i] \in {"other_api", "general"}) =>
        /\ \A i \in 1..Len(call.waits) : call.waits[i] = call.retry_delay
        /\ (call.result.kind = "raised" /\ call.errs # <<>>) =>
               call.attempts = call.max_retries

\* What made the embedding give up, in the caller's three classes.
Cause ==
    LET last == call.errs[Len(call.errs)]
    IN IF last \in {"quota", "rate"} THEN last ELSE "generic"

\* C15: whenever get_vectorstore gives up on the embedding, the error it
\* raises tells the caller the class of the cause (quota, rate or generic) and
\* the number of attempts made, whatever the cause.
C15_GiveUpClassified ==
    (Done /\ call.result.kind = "raised" /\ call.errs # <<>>) =>
        /\ CallerClass(call.result) = Cause
        /\ call.result.attempts = call.attempts

----------------------------------------------------------------------------
\* Claims about the document handlers (SpecDocs, SpecSwap), about extraction
\* (SpecBuild) and about citations (SpecCite).

\* C16: get_vectorstore hands over an index only when the load or an attempt
\* succeeded, never a partial one; and from the start of a call that raises
\* to the end of its handler (rebuild, upload, delete) vectordb designates
\* the same index.
C16_IndexOnlyOnSuccess ==
    [][ /\ (call'.result.kind = "returned" /\ call'.result.value.kind # "none") =>
              /\ call'.result.value.kind = "index"
              /\ \/ call'.load = "ok"
                 \/ call'.attempts = Len(call'.errs) + 1
        /\ (call.pc = "idle" /\ call'.pc # "idle") => vectordb' = vectordb
        /\ (call.pc # "idle" /\ call.result.kind # "returned") => vectordb' = vectordb
      ]_vars

\* A rebuild answered 429 and the index is still the one from before, which
\* lacks a file of the folder.
C16_Witness ==
    /\ call.pc = "idle"
    /\ resp = DocResp("rebuild", 429)
    /\ vectordb = IndexOf({"a.pdf"})
    /\ docs = Files

\* C17: with questions in flight during a rebuild, the reference vectordb
\* changes only in the one step that ends the handler, to the complete index
\* of the files given, and neither vectordb nor the index a question works on
\* is ever a partially built one; the collection those indexes read changes
\* only in the step in which an attempt succeeds, by all chunks of the files.
C17_AtomicSwap ==
    [][ /\ vectordb'.kind # "partial"
        /\ \A r \in Reqs :
              /\ qindex'[r].kind # "partial"
              /\ qindex'[r] # qindex[r] => qindex'[r] = vectordb
              /\ req'[r].pc = "invoking" => qindex'[r].kind = "index"
        /\ vectordb' # vectordb =>
              /\ call.pc = "done"
              /\ call'.pc = "idle"
              /\ vectordb' = IndexOf(call.pdfs)
        /\ collection' # collection =>
              /\ call.pc = "embedding"
              /\ call'.pc = "done"
              /\ call'.result.kind = "returned"
              /\ \A f \in call.pdfs : collection'[f] # "none"
      ]_vars

\* A rebuild is inside an attempt while one question works on the index from
\* before the first rebuild and another on the index that rebuild produced.
C17_Witness ==
    /\ call.pc = "embedding"
    /\ call.building.kind = "partial"
    /\ vectordb = IndexOf(Files)
    /\ \E r1, r2 \in Reqs :
          /\ req[r1].pc = "invoking" /\ qindex[r1] = IndexOf({"a.pdf"})
          /\ req[r2].pc = "invoking" /\ qindex[r2] = IndexOf(Files)

\* C18: if extraction fails for a file of the list, the call ends there with
\* that error: no embedding attempt, no wait, nothing indexed or persisted,
\* also for the files that could be read.
C18_ExtractionFailureIsFatal ==
    [][ (call.pc = "extract" /\ call.pdfs \cap corrupt # {}) =>
            /\ call'.pc = "done"
            /\ call'.result.kind = "raised"
            /\ call'.result.prefix = "ingestion"
            /\ call'.attempts = 0
            /\ call'.waits = <<>>
            /\ call'.extracted = {}
            /\ call'.building = NoIndex
            /\ persisted' = persisted
            /\ collection' = collection
      ]_vars

C18_Witness ==
    /\ Done
    /\ call.pdfs = Files
    /\ corrupt = {"b.pdf"}
    /\ call.result.kind = "raised"
    /\ call.result.prefix = "ingestion"
    /\ call.attempts = 0

\* C19: when get_vectorstore has to build and the file list is empty, it makes
\* no embedding attempt and ends by reporting that there are no documents.
C19_EmptyListReported ==
    (call.pdfs = {} /\ Building) =>
        /\ call.attempts = 0
        /\ Done => call.result.kind = "raised"

\* The pages of source s in ctx, in the order of ctx.
PagesOf(ctx, s) ==
    LET sel == SelectSeq(ctx, LAMBDA c : c.source = s)
    IN [i \in 1..Len(sel) |-> sel[i].page]

\* C20: the citation map has exactly the sources occurring in the retrieved
\* chunks as keys, and gives for each source the pages of its chunks in
\* retrieval order, duplicates kept, unsorted.
C20_CitationsInRetrievalOrder ==
    [][ /\ DOMAIN sources' = {context[i].source : i \in 1..Len(context)}
        /\ \A s \in DOMAIN sources' : sources'[s] = PagesOf(context, s)
      ]_vars

C20_Witness ==
    /\ context = <<[source |-> "a.pdf", page |-> 1],
                   [source |-> "a.pdf", page |-> 3],
                   [source |-> "b.pdf", page |-> 2]>>
    /\ sources = ("a.pdf" :> <<1, 3>>) @@ ("b.pdf" :> <<2>>)

----------------------------------------------------------------------------
\* Claims about what the index holds (SpecDocs, SpecBuild).

\* C21: after a successful forced rebuild with file list F the index holds
\* exactly the chunks of the files of F, each once: nothing of a file outside
\* F, nothing twice, whatever was built before.
C21_RebuildReplaces ==
    (Done /\ ~call.fss /\ call.result.kind = "returned"
          /\ call.result.value.kind = "index") =>
        \A f \in Files : collection[f] = IF f \in call.pdfs THEN "once" ELSE "none"

----------------------------------------------------------------------------
\* Claims about the session store, continued (SpecSerial, SpecConcurrent).

\* C22: a history lookup returns the stored history, or an empty one for an
\* id without entry, and changes nothing: after the handler's sweep the store
\* has no new entry and no other content, and no timestamp is set or altered.
C22_LookupChangesNothing ==
    [][\A s \in Sessions :
          GetHistory(s) =>
              /\ session_history' = CleanupHistory(session_history, active_sessions, now)
              /\ active_sessions' = CleanupActive(active_sessions, now)
              /\ s \notin DOMAIN session_history => s \notin DOMAIN session_history'
              /\ get_chat_history(session_history', s) =
                    IF s \in DOMAIN session_history' THEN session_history'[s] ELSE <<>>
              /\ resp'.status =
                    IF s \in DOMAIN session_history' /\ session_history'[s] # <<>>
                    THEN 200
                    ELSE IF s \in DOMAIN active_sessions' THEN 200 ELSE 404
      ]_vars

\* A lookup of an id without entry was answered while another session keeps
\* its history and its older timestamp.
C22_Witness ==
    /\ resp.op = "history"
    /\ resp.status = 404
    /\ resp.sid \notin DOMAIN session_history
    /\ resp.sid \notin DOMAIN active_sessions
    /\ \E s \in DOMAIN active_sessions :
          /\ active_sessions[s] < now
          /\ Len(Stored(s)) >= 4

----------------------------------------------------------------------------
\* Claims about the index after a delete or an upload (SpecDocs) and about
\* the ways get_vectorstore ends (SpecBuild).

\* C24: when a delete succeeds while other documents remain, the index that
\* vectordb designates afterwards is one without the deleted document: it was
\* not made from that file and holds none of its chunks.
C24_DeleteDropsChunks ==
    [][ (call.pc = "done" /\ call.caller = "delete" /\ call'.pc = "idle"
           /\ resp' = DocResp("delete", 200)) =>
            /\ call.target \notin vectordb'.files
            /\ vectordb'.kind = "index" => collection'[call.target] = "none"
      ]_vars

\* C25: when the upload handler answers that the file was uploaded and
\* indexed, vectordb designates an index that holds the chunks of that file,
\* also when a persisted index existed before the upload.
C25_UploadIndexesFile ==
    [][ (call.pc = "done" /\ call.caller = "upload" /\ call'.pc = "idle"
           /\ call.result.kind = "returned") =>
            /\ vectordb'.kind = "index"
            /\ call.target \in vectordb'.files
            /\ collection'[call.target] # "none"
      ]_vars

\* C26: every call of get_vectorstore ends by returning an index or by
\* raising; it never returns None.
C26_NeverReturnsNone ==
    Done => \/ call.result.kind = "raised"
            \/ call.result.kind = "returned" /\ call.result.value # NoIndex

----------------------------------------------------------------------------
\* Claims about the shape and the tracking of histories (SpecSerial,
\* SpecConcurrent).

\* C27: every stored history has even length and alternates human,
\* assistant, human, assistant, ... from a human turn, each answer next to
\* its question: trimming drops whole pairs.
C27_WholePairs ==
    \A s \in DOMAIN session_history :
        LET h == session_history[s]
        IN /\ Len(h) % 2 = 0
           /\ \A i \in 1..Len(h) :
                 IF i % 2 = 1
                 THEN h[i].role = "human"
                 ELSE h[i].role = "ai" /\ h[i].content = h[i - 1].content

\* A history after a trim: the oldest pair is gone, the second pair leads.
C27_Witness ==
    \E s \in DOMAIN session_history :
        /\ count[s] - epoch[s] = 6
        /\ Len(session_history[s]) = 10
        /\ session_history[s][1] = HumanMessage(count[s] - 4)
        /\ session_history[s][2] = AIMessage(count[s] - 4)

\* C28: every session with a non-empty stored history has an entry in the
\* activity map, also when a sweep has run while a question was in flight,
\* so that the sweep can find and discard it.
C28_HistoryIsTracked ==
    \A s \in DOMAIN session_history :
        session_history[s] # <<>> => s \in DOMAIN active_sessions

----------------------------------------------------------------------------
\* Claims about the retry loop as a whole (SpecBuildFair, SpecBuild).

\* At most max_retries attempts and max_retries - 1 waits, each wait after a
\* failed attempt, and a returned value ends the call.
BoundedRetries ==
    /\ call.attempts <= call.max_retries
    /\ Len(call.waits) <= Len(call.errs)
    /\ Len(call.errs) <= call.attempts
    /\ call.waits # <<>> => Len(call.waits) <= call.max_retries - 1
    /\ call.result.kind # "pending" => (Done /\ call.building = NoIndex)
    /\ (call.result.kind = "returned" /\ call.attempts > 0) =>
           call.attempts = Len(call.errs) + 1

\* C29: whatever the embedding attempts do (quota, rate, other provider and
\* other failures, success), a build ends after at most max_retries attempts
\* and max_retries - 1 waits and makes no attempt after a success.
C29_BuildTerminates ==
    /\ []BoundedRetries
    /\ (call.pc # "idle") ~> Done

C29_Witness ==
    /\ Done
    /\ call.max_retries = 3
    /\ call.attempts = 3
    /\ call.errs = <<"quota", "general", "rate">>
    /\ Len(call.waits) = 2
    /\ call.result.kind = "raised"

\* C30: with failures of different causes in one call, each wait follows
\* from the cause of the attempt that just failed and the 0-based index i of
\* that attempt (quota: retry_delay * 2^i, rate: retry_delay * (i + 1), other
\* than a provider error: retry_delay); a provider error matching "quota" or
\* "429" and also "rate" counts as quota; the error raised in the end is
\* that of the last failed attempt alone.
C30_MixedCauses ==
    /\ \A i \in 1..Len(call.waits) :
          call.waits[i] =
             CASE call.errs[i] = "quota" -> call.retry_delay * (2 ^ (i - 1))
               [] call.errs[i] = "rate" -> call.retry_delay * i
               [] call.errs[i] = "general" -> call.retry_delay
               [] OTHER -> -1
    /\ call.caught # <<>> =>
          LET e == call.caught[1]
              last == call.errs[Len(call.errs)]
          IN /\ (e.provider /\ e.quota) => last = "quota"
             /\ (e.provider /\ ~e.quota /\ e.rate) => last = "rate"
             /\ ~e.provider => last = "general"
    /\ (call.result.kind = "raised" /\ call.errs # <<>>) =>
          call.result.prefix =
             CASE call.errs[Len(call.errs)] = "quota" -> "API quota exceeded after"
               [] call.errs[Len(call.errs)] = "rate" -> "Rate limit exceeded after"
               [] call.errs[Len(call.errs)] = "general" ->
                      "Failed to create embeddings after"
               [] OTHER -> "Google API error:"

\* Four attempts fail for three causes; the last error matches both "quota"
\* and "rate" and the call gives up with the quota error.
C30_Witness ==
    /\ Done
    /\ call.retry_delay = 5
    /\ call.max_retries = 4
    /\ call.errs = <<"general", "rate", "quota", "quota">>
    /\ call.waits = <<5, 10, 20>>
    /\ call.caught = <<[provider |-> TRUE, quota |-> TRUE, rate |-> TRUE]>>
    /\ call.result.kind = "raised"
    /\ call.result.prefix = "API quota exceeded after"
====
